---------------------------- MODULE Spec2Model ----------------------------
(***************************************************************************)
(* Model of simulator/src/vm.rs: enforce_soroban_compatibility, the        *)
(* single-pass scan that rejects a wasm module holding a floating-point    *)
(* instruction, and is_float_op, its classification predicate.             *)
(*                                                                         *)
(* The input bytes are modelled by what wasmparser's Parser yields for     *)
(* them: a sequence of payload chunks, each of which decodes or fails, a   *)
(* code-section entry holding the items its operators reader yields.       *)
(* Every call of the function is one entry of the variables, so that one   *)
(* call (Spec) and two concurrent calls (SpecConc) run the same actions.   *)
(***************************************************************************)
EXTENDS Naturals, Sequences, FiniteSets, TLC

VARIABLES
    wasm,      \* wasm[c]: the input `wasm: &[u8]` of call c, as the decoder sees it
    pc,        \* pc[c]: where call c stands in the function body
    pos,       \* pos[c]: number of payloads the parse_all iterator has yielded
    off,       \* off[c]: number of operators `ops` has read from the current body
    op,        \* op[c]: the local `op` of the while loop
    result,    \* result[c]: the returned Result<(), String>
    decoded    \* decoded[c]: the decode events of call c, in the order they happened

vars == <<wasm, pc, pos, off, op, result, decoded>>

----------------------------------------------------------------------------
(* Bounds of the model: the payload chunks of a module, and the            *)
(* instructions of all its function bodies together.                       *)

MaxChunks == 3

MaxOps == 2

----------------------------------------------------------------------------
(* The decoder's instruction set, as far as the scan can tell instructions *)
(* apart: a sample of the variants of wasmparser::Operator.                *)

Operator ==
    { "Nop", "End", "Call", "I32Add", "I32Load", "I64Const",
      "F32Add", "F32Load", "F64Const", "F64ConvertI32S", "F32DemoteF64",
      "F32x4Add", "I32TruncF32S", "I32TruncF64S", "I64TruncF64S",
      "I64ReinterpretF64" }

(* The variants that carry fields; their debug form continues past the name. *)
StructVariant == { "Call", "I32Load", "I64Const", "F32Load", "F64Const" }

(* The identifier of a variant, character by character. *)
VariantName(o) ==
    CASE o = "Nop" -> <<"N", "o", "p">>
      [] o = "End" -> <<"E", "n", "d">>
      [] o = "Call" -> <<"C", "a", "l", "l">>
      [] o = "I32Add" -> <<"I", "3", "2", "A", "d", "d">>
      [] o = "I32Load" -> <<"I", "3", "2", "L", "o", "a", "d">>
      [] o = "I64Const" -> <<"I", "6", "4", "C", "o", "n", "s", "t">>
      [] o = "F32Add" -> <<"F", "3", "2", "A", "d", "d">>
      [] o = "F32Load" -> <<"F", "3", "2", "L", "o", "a", "d">>
      [] o = "F64Const" -> <<"F", "6", "4", "C", "o", "n", "s", "t">>
      [] o = "F64ConvertI32S" ->
            <<"F", "6", "4", "C", "o", "n", "v", "e", "r", "t", "I", "3", "2", "S">>
      [] o = "F32DemoteF64" ->
            <<"F", "3", "2", "D", "e", "m", "o", "t", "e", "F", "6", "4">>
      [] o = "F32x4Add" -> <<"F", "3", "2", "x", "4", "A", "d", "d">>
      [] o = "I32TruncF32S" ->
            <<"I", "3", "2", "T", "r", "u", "n", "c", "F", "3", "2", "S">>
      [] o = "I32TruncF64S" ->
            <<"I", "3", "2", "T", "r", "u", "n", "c", "F", "6", "4", "S">>
      [] o = "I64TruncF64S" ->
            <<"I", "6", "4", "T", "r", "u", "n", "c", "F", "6", "4", "S">>
      [] o = "I64ReinterpretF64" ->
            <<"I", "6", "4", "R", "e", "i", "n", "t", "e", "r", "p", "r", "e", "t",
              "F", "6", "4">>

(* format!("{:?}", op): the variant's name, then " {" and the fields for a *)
(* variant that has fields.                                                *)
DebugFormat(o) ==
    IF o \in StructVariant
    THEN VariantName(o) \o <<" ", "{">>
    ELSE VariantName(o)

(* str::starts_with *)
starts_with(name, prefix) ==
    /\ Len(name) >= Len(prefix)
    /\ \A i \in 1..Len(prefix) : name[i] = prefix[i]

(* is_float_op with a mistyped prefix: "I32" for "F32". *)
is_float_op_typo(o) ==
    LET name == DebugFormat(o)
    IN  starts_with(name, <<"I", "3", "2">>) \/ starts_with(name, <<"F", "6", "4">>)

is_float_op(o) ==
    LET name == DebugFormat(o)
    IN  starts_with(name, <<"F", "3", "2">>) \/ starts_with(name, <<"F", "6", "4">>)

----------------------------------------------------------------------------
(* The input, as the decoder yields it.                                    *)

(* What ops.read() yields: an operator, or a decode error. *)
BadOp == "BadOp"

BodyOps == { "I32Add", "F32Add", "I64TruncF64S" }

Items == BodyOps \cup {BadOp}

(* A payload chunk.  kind "err": the parser yields Err for it.  kind       *)
(* "other": any payload but a code-section entry; malformed tells whether  *)
(* its contents decode.  kind "code": a code-section entry; malformed      *)
(* tells whether get_operators_reader fails on it, ops what read() yields. *)
(* A shape is a chunk less its instructions, len their number.             *)
ChunkShapes ==
    {[kind |-> "err", malformed |-> TRUE, len |-> 0]}
    \cup {[kind |-> "other", malformed |-> b, len |-> 0] : b \in BOOLEAN}
    \cup {[kind |-> "code", malformed |-> TRUE, len |-> 0]}
    \cup {[kind |-> "code", malformed |-> FALSE, len |-> n] : n \in 0..MaxOps}

(* The number of instructions of the chunks of shapes sh. *)
RECURSIVE Total(_)
Total(sh) ==
    IF Len(sh) = 0 THEN 0 ELSE sh[Len(sh)].len + Total(SubSeq(sh, 1, Len(sh) - 1))

(* The module of shapes sh whose bodies hold, in order, the items of flat. *)
Module(sh, flat) ==
    [k \in 1..Len(sh) |->
        [kind |-> sh[k].kind,
         malformed |-> sh[k].malformed,
         ops |-> SubSeq(flat, Total(SubSeq(sh, 1, k - 1)) + 1, Total(SubSeq(sh, 1, k)))]]


----------------------------------------------------------------------------
(* Results. *)

NotReturned == [ok |-> FALSE, reason |-> "(not returned)"]

Ok == [ok |-> TRUE, reason |-> ""]

Err(reason) == [ok |-> FALSE, reason |-> reason]

FloatMsg ==
    "floating-point instructions are not allowed under strict Soroban compatibility"

(* e.to_string(): the decoder's message with the place of the error; j = 0 *)
(* for an error of the chunk itself or of opening its operators reader.    *)
to_string(k, j) ==
    "decode error (at " \o ToString(k) \o "." \o ToString(j) \o ")"

Event(k, j) == <<k, j>>

----------------------------------------------------------------------------
(* The calls. *)

Calls == DOMAIN wasm

Init ==
    /\ \E i \in 0..MaxChunks : \E sh \in [1..i -> ChunkShapes] :
          /\ Total(sh) <= MaxOps
          /\ \E flat \in [1..Total(sh) -> Items] : wasm = [c \in {1} |-> Module(sh, flat)]
    /\ pc = [c \in DOMAIN wasm |-> "payload"]
    /\ pos = [c \in DOMAIN wasm |-> 0]
    /\ off = [c \in DOMAIN wasm |-> 0]
    /\ op = [c \in DOMAIN wasm |-> "none"]
    /\ result = [c \in DOMAIN wasm |-> NotReturned]
    /\ decoded = [c \in DOMAIN wasm |-> <<>>]

(* The payload the iterator of call c yields next. *)
Payload(c) == wasm[c][pos[c] + 1]

(* The code-section entry call c is scanning. *)
Body(c) == wasm[c][pos[c]]

(* The match written against the wrong variant, Payload::CodeSectionStart. *)
IsCodeSectionStart(payload) == payload.kind = "codestart"

(* `if let Payload::CodeSectionEntry(body) = payload` *)
IsCodeSectionEntry(payload) == payload.kind = "code"

(* The result kept in one slot shared by every call. *)
Return_shared(c, r) ==
    /\ result' = [d \in DOMAIN result |-> r]
    /\ pc' = [pc EXCEPT ![c] = "done"]

Return(c, r) ==
    /\ result' = [result EXCEPT ![c] = r]
    /\ pc' = [pc EXCEPT ![c] = "done"]

(* for payload in parse_all(wasm): the next chunk; `?` on an error; a code *)
(* entry goes on to its operators, any other payload is skipped.           *)
NextPayload(c) ==
    /\ pc[c] = "payload"
    /\ pos[c] < Len(wasm[c])
    /\ pos' = [pos EXCEPT ![c] = pos[c] + 1]
    /\ decoded' = [decoded EXCEPT ![c] = Append(decoded[c], Event(pos[c] + 1, 0))]
    /\ IF Payload(c).kind = "err"
       THEN Return(c, Err(to_string(pos[c] + 1, 0)))
       ELSE /\ pc' = [pc EXCEPT ![c] =
                        IF IsCodeSectionEntry(Payload(c)) THEN "reader" ELSE "payload"]
            /\ UNCHANGED result
    /\ UNCHANGED <<wasm, off, op>>

(* The iterator is exhausted: Ok(()). *)
ReturnOk(c) ==
    /\ pc[c] = "payload"
    /\ pos[c] >= Len(wasm[c])
    /\ Return(c, Ok)
    /\ UNCHANGED <<wasm, pos, off, op, decoded>>

(* The reader's error dropped: the body is scanned as far as it reads. *)
GetOperatorsReader_unchecked(c) ==
    /\ pc[c] = "reader"
    /\ off' = [off EXCEPT ![c] = 0]
    /\ pc' = [pc EXCEPT ![c] = "ops"]
    /\ UNCHANGED <<wasm, pos, op, result, decoded>>

(* let mut ops = body.get_operators_reader().map_err(..)? *)
GetOperatorsReader(c) ==
    /\ pc[c] = "reader"
    /\ IF Body(c).malformed
       THEN /\ Return(c, Err(to_string(pos[c], 0)))
            /\ UNCHANGED off
       ELSE /\ off' = [off EXCEPT ![c] = 0]
            /\ pc' = [pc EXCEPT ![c] = "ops"]
            /\ UNCHANGED result
    /\ UNCHANGED <<wasm, pos, op, decoded>>

(* while !ops.eof(): the reader is at the end of the body, on to the next  *)
(* payload.                                                                *)
EndOfBody(c) ==
    /\ pc[c] = "ops"
    /\ off[c] >= Len(Body(c).ops)
    /\ pc' = [pc EXCEPT ![c] = "payload"]
    /\ UNCHANGED <<wasm, pos, off, op, result, decoded>>

(* A failed read passed over instead of returned. *)
ReadOp_skip_error(c) ==
    /\ pc[c] = "ops"
    /\ off[c] < Len(Body(c).ops)
    /\ off' = [off EXCEPT ![c] = off[c] + 1]
    /\ decoded' = [decoded EXCEPT ![c] = Append(decoded[c], Event(pos[c], off[c] + 1))]
    /\ IF Body(c).ops[off[c] + 1] = BadOp
       THEN UNCHANGED <<op, pc>>
       ELSE /\ op' = [op EXCEPT ![c] = Body(c).ops[off[c] + 1]]
            /\ pc' = [pc EXCEPT ![c] = "classify"]
    /\ UNCHANGED <<wasm, pos, result>>

(* The operator looked at without advancing the reader. *)
ReadOp_peek(c) ==
    /\ pc[c] = "ops"
    /\ off[c] < Len(Body(c).ops)
    /\ IF Body(c).ops[off[c] + 1] = BadOp
       THEN /\ Return(c, Err(to_string(pos[c], off[c] + 1)))
            /\ UNCHANGED op
       ELSE /\ op' = [op EXCEPT ![c] = Body(c).ops[off[c] + 1]]
            /\ pc' = [pc EXCEPT ![c] = "classify"]
            /\ UNCHANGED result
    /\ UNCHANGED <<wasm, pos, off, decoded>>

(* let op = ops.read().map_err(..)? *)
ReadOp(c) ==
    /\ pc[c] = "ops"
    /\ off[c] < Len(Body(c).ops)
    /\ off' = [off EXCEPT ![c] = off[c] + 1]
    /\ decoded' = [decoded EXCEPT ![c] = Append(decoded[c], Event(pos[c], off[c] + 1))]
    /\ IF Body(c).ops[off[c] + 1] = BadOp
       THEN /\ Return(c, Err(to_string(pos[c], off[c] + 1)))
            /\ UNCHANGED op
       ELSE /\ op' = [op EXCEPT ![c] = Body(c).ops[off[c] + 1]]
            /\ pc' = [pc EXCEPT ![c] = "classify"]
            /\ UNCHANGED result
    /\ UNCHANGED <<wasm, pos>>

(* The forbidden instruction found, and the scan going on. *)
Classify_no_return(c) ==
    /\ pc[c] = "classify"
    /\ pc' = [pc EXCEPT ![c] = "ops"]
    /\ UNCHANGED <<wasm, pos, off, op, result, decoded>>

(* if is_float_op(&op) { return Err(..) } *)
Classify(c) ==
    /\ pc[c] = "classify"
    /\ IF is_float_op(op[c])
       THEN Return(c, Err(FloatMsg))
       ELSE /\ pc' = [pc EXCEPT ![c] = "ops"]
            /\ UNCHANGED result
    /\ UNCHANGED <<wasm, pos, off, op, decoded>>

Next ==
    \E c \in Calls :
        \/ NextPayload(c)
        \/ ReturnOk(c)
        \/ GetOperatorsReader(c)
        \/ EndOfBody(c)
        \/ ReadOp(c)
        \/ Classify(c)

Spec == Init /\ [][Next]_vars

(* The scan runs to its return: a call that has not returned takes its next *)
(* step.                                                                    *)
FairSpec == Spec /\ WF_vars(Next)

(* Two concurrent calls, on the same input or on different inputs: every   *)
(* module of one chunk, and a few of two.                                  *)
CodeEntry(s) == [kind |-> "code", malformed |-> FALSE, ops |-> s]

OtherPayload(b) == [kind |-> "other", malformed |-> b, ops |-> <<>>]

ConcInputs ==
    { <<>> }
    \cup UNION { { Module(<<sh>>, flat) : flat \in [1..sh.len -> Items] } : sh \in ChunkShapes }
    \cup { <<OtherPayload(TRUE), CodeEntry(<<"I32Add", "I64TruncF64S">>)>>,
           <<CodeEntry(<<"I32Add">>), CodeEntry(<<"F32Add">>), CodeEntry(<<BadOp>>)>>,
           <<CodeEntry(<<"I32Add", BadOp>>), CodeEntry(<<"F32Add">>)>>,
           <<OtherPayload(FALSE), [kind |-> "err", malformed |-> TRUE, ops |-> <<>>]>> }

InitConc ==
    /\ wasm \in [{1, 2} -> ConcInputs]
    /\ pc = [c \in DOMAIN wasm |-> "payload"]
    /\ pos = [c \in DOMAIN wasm |-> 0]
    /\ off = [c \in DOMAIN wasm |-> 0]
    /\ op = [c \in DOMAIN wasm |-> "none"]
    /\ result = [c \in DOMAIN wasm |-> NotReturned]
    /\ decoded = [c \in DOMAIN wasm |-> <<>>]

SpecConc == InitConc /\ [][Next]_vars

----------------------------------------------------------------------------
(* Vocabulary of the properties.                                           *)

Done(c) == pc[c] = "done"

(* The value types an instruction consumes or produces (lane types for a   *)
(* vector instruction), after the WebAssembly instruction set.             *)
ValueTypes(o) ==
    CASE o \in {"Nop", "End", "Call"} -> {}
      [] o \in {"I32Add", "I32Load"} -> {"i32"}
      [] o = "I64Const" -> {"i64"}
      [] o \in {"F32Add", "F32x4Add"} -> {"f32"}
      [] o = "F32Load" -> {"i32", "f32"}
      [] o = "F64Const" -> {"f64"}
      [] o = "F64ConvertI32S" -> {"i32", "f64"}
      [] o = "F32DemoteF64" -> {"f32", "f64"}
      [] o = "I32TruncF32S" -> {"i32", "f32"}
      [] o = "I32TruncF64S" -> {"i32", "f64"}
      [] o \in {"I64TruncF64S", "I64ReinterpretF64"} -> {"i64", "f64"}

(* A floating-point-family instruction: one that operates on f32 or f64. *)
FloatFamily(o) == ValueTypes(o) \cap {"f32", "f64"} # {}

(* A 64-bit float-to-integer conversion, named with its integer destination first. *)
TruncF64(o) == o \in {"I32TruncF64S", "I64TruncF64S"}

(* Every chunk and every instruction of m decodes. *)
WellFormed(m) ==
    \A k \in 1..Len(m) :
        /\ m[k].kind # "err"
        /\ ~m[k].malformed
        /\ \A j \in 1..Len(m[k].ops) : m[k].ops[j] # BadOp

(* m is malformed at one of the scan's decode points: a chunk, the opening *)
(* of a body's operators reader, or an instruction.                        *)
DecodeFails(m) ==
    \E k \in 1..Len(m) :
        \/ m[k].kind = "err"
        \/ m[k].kind = "code" /\ m[k].malformed
        \/ \E j \in 1..Len(m[k].ops) : m[k].ops[j] = BadOp

(* The places of the instructions of m that satisfy P. *)
OpPlaces(m) == UNION { { <<k, j>> : j \in 1..Len(m[k].ops) } : k \in 1..Len(m) }

OpsWhere(m, P(_)) ==
    { p \in OpPlaces(m) : m[p[1]].ops[p[2]] # BadOp /\ P(m[p[1]].ops[p[2]]) }

HasFloatFamily(m) == OpsWhere(m, FloatFamily) # {}

(* Scan order: module order of the chunks, then body order of the instructions. *)
Before(p, q) == p[1] < q[1] \/ (p[1] = q[1] /\ p[2] < q[2])

(* The places where decoding fails, and where a forbidden instruction stands. *)
DecodeFailures(m) ==
    { <<k, 0>> : k \in { i \in 1..Len(m) : m[i].kind = "err" \/ (m[i].kind = "code" /\ m[i].malformed) } }
    \cup { p \in OpPlaces(m) : m[p[1]].ops[p[2]] = BadOp }

Forbidden(m) == OpsWhere(m, is_float_op)

StopEvents(m) == DecodeFailures(m) \cup Forbidden(m)

FirstStop(m) ==
    CHOOSE p \in StopEvents(m) : \A q \in StopEvents(m) : p = q \/ Before(p, q)

(* The verdict of one call on m, run alone: that of the first stop event. *)
Alone(m) ==
    IF StopEvents(m) = {} THEN Ok
    ELSE IF FirstStop(m) \in Forbidden(m) THEN Err(FloatMsg)
    ELSE Err(to_string(FirstStop(m)[1], FirstStop(m)[2]))

Last(s) == s[Len(s)]

(* Every chunk, and every instruction of every code-section entry, of m. *)
AllEvents(m) ==
    { <<k, 0>> : k \in 1..Len(m) }
    \cup OpPlaces(m)

Range(s) == { s[i] : i \in 1..Len(s) }

(* s lists its events in scan order, each once. *)
ForwardOnly(s) == \A i \in 1..Len(s) : \A j \in 1..Len(s) : i < j => Before(s[i], s[j])

----------------------------------------------------------------------------
(* C1: a well-formed module without a floating-point-family instruction    *)
(* is accepted: the call returns Ok, whatever its chunks, bodies and       *)
(* instructions, a module without a code-section entry included; no       *)
(* instruction outside the floating-point family is classified forbidden.  *)
C1_CleanModuleAccepted ==
    /\ \A o \in Operator : is_float_op(o) => FloatFamily(o)
    /\ \A c \in Calls :
          (Done(c) /\ WellFormed(wasm[c]) /\ ~HasFloatFamily(wasm[c])) => result[c] = Ok

C1_Witness ==
    \E c \in Calls :
        /\ Done(c) /\ WellFormed(wasm[c]) /\ ~HasFloatFamily(wasm[c])
        /\ \E k \in 1..Len(wasm[c]) : wasm[c][k].kind = "other"
        /\ \E k \in 1..Len(wasm[c]) : wasm[c][k].kind = "code" /\ Len(wasm[c][k].ops) = MaxOps
        /\ result[c] = Ok

(* C2: a well-formed module with at least one floating-point-family        *)
(* instruction is rejected with the fixed message, wherever the            *)
(* instruction stands.                                                     *)
C2_FloatModuleRejected ==
    \A c \in Calls :
        (Done(c) /\ WellFormed(wasm[c]) /\ HasFloatFamily(wasm[c]))
            => result[c] = Err(FloatMsg)

(* C3, as stated: a module that is not well-formed, at the chunk level,    *)
(* inside a non-code section or inside a body, is never accepted.          *)
C3_MalformedNeverAccepted ==
    \A c \in Calls : (Done(c) /\ ~WellFormed(wasm[c])) => ~result[c].ok

(* C3, amended: a module that is malformed at a decode point of the scan   *)
(* (a chunk, the opening of a body's operators reader, an instruction of a *)
(* body) is never accepted: the call returns a failure.                    *)
C3_DecodeFailureNeverAccepted ==
    \A c \in Calls :
        (Done(c) /\ DecodeFails(wasm[c])) => (~result[c].ok /\ result[c] # NotReturned)

C3_Witness ==
    \E c \in Calls :
        /\ Done(c)
        /\ Len(wasm[c]) = 2
        /\ wasm[c][1] = CodeEntry(<<"I32Add">>)
        /\ wasm[c][2].kind = "code" /\ wasm[c][2].malformed
        /\ result[c] = Err(to_string(2, 0))

(* C4: early exit.  A call that returns the float violation has decoded    *)
(* nothing past the forbidden instruction, and no forbidden instruction    *)
(* before it; and when the first body opens with a forbidden instruction,  *)
(* the reason is the float violation whatever follows it.                  *)
FirstBodyOpensForbidden(m) ==
    \E k \in 1..Len(m) :
        /\ \A i \in 1..(k - 1) : m[i].kind = "other"
        /\ m[k].kind = "code" /\ ~m[k].malformed
        /\ Len(m[k].ops) >= 1
        /\ m[k].ops[1] # BadOp
        /\ is_float_op(m[k].ops[1])

C4_EarlyExit ==
    \A c \in Calls :
        Done(c) =>
            /\ result[c] = Err(FloatMsg) =>
                  /\ decoded[c] # <<>>
                  /\ Last(decoded[c]) \in Forbidden(wasm[c])
                  /\ \A i \in 1..(Len(decoded[c]) - 1) : decoded[c][i] \notin Forbidden(wasm[c])
            /\ FirstBodyOpensForbidden(wasm[c]) => result[c] = Err(FloatMsg)

C4_Witness ==
    \E c \in Calls :
        /\ Done(c)
        /\ wasm[c] = <<CodeEntry(<<"F32Add", BadOp>>),
                       [kind |-> "code", malformed |-> TRUE, ops |-> <<>>]>>
        /\ result[c] = Err(FloatMsg)
        /\ decoded[c] = <<Event(1, 0), Event(1, 1)>>

(* C5: a well-formed module with one function whose body holds a 64-bit    *)
(* float-to-integer conversion (I32TruncF64S, I64TruncF64S) is rejected    *)
(* with the fixed message.                                                 *)
C5_TruncF64Rejected ==
    \A c \in Calls :
        ( /\ Done(c)
          /\ WellFormed(wasm[c])
          /\ Cardinality({ k \in 1..Len(wasm[c]) : wasm[c][k].kind = "code" }) = 1
          /\ OpsWhere(wasm[c], TruncF64) # {} )
            => result[c] = Err(FloatMsg)

(* C6: the verdict is a function of the input alone.  Each of two          *)
(* concurrent calls returns what it returns when run alone, two calls on   *)
(* the same input return the same verdict, and no step changes an input.   *)
C6_CallsIndependent ==
    /\ [](\A c \in Calls : Done(c) => result[c] = Alone(wasm[c]))
    /\ [](\A c \in Calls : \A d \in Calls :
             (Done(c) /\ Done(d) /\ wasm[c] = wasm[d]) => result[c] = result[d])
    /\ [][wasm' = wasm]_vars

C6_Witness ==
    /\ Calls = {1, 2}
    /\ Done(1) /\ Done(2)
    /\ wasm[1] # wasm[2]
    /\ Len(decoded[1]) > 2 /\ Len(decoded[2]) > 2
    /\ result[1] = Ok
    /\ result[2] = Err(FloatMsg)

(* C7: a failure at any of the three decode points ends the scan there and *)
(* returns the decoder's text; the reason is that of the first event in    *)
(* scan order, decode error or forbidden instruction.                      *)
C7_FirstEventDecides ==
    \A c \in Calls :
        (Done(c) /\ StopEvents(wasm[c]) # {}) =>
            LET first == FirstStop(wasm[c])
            IN  /\ Last(decoded[c]) = first
                /\ first \in DecodeFailures(wasm[c]) =>
                      result[c] = Err(to_string(first[1], first[2]))
                /\ first \in Forbidden(wasm[c]) => result[c] = Err(FloatMsg)

C7_Witness ==
    \E c \in Calls :
        /\ Done(c)
        /\ wasm[c] = <<OtherPayload(FALSE), CodeEntry(<<BadOp, "F32Add">>)>>
        /\ result[c] = Err(to_string(2, 1))

(* C8: is_float_op holds of an instruction exactly when the instruction    *)
(* belongs to the floating-point family.                                   *)
C8_PrefixIsFloatFamily ==
    \A c \in Calls : pc[c] = "classify" => (is_float_op(op[c]) <=> FloatFamily(op[c]))

(* C9: every scan terminates with one verdict, having consumed chunks and  *)
(* instructions forward only, each at most once.                           *)
C9_Terminates ==
    /\ <>(\A c \in Calls : Done(c) /\ result[c] # NotReturned)
    /\ [](\A c \in Calls : ForwardOnly(decoded[c]))
    /\ [](\A c \in Calls : ~Done(c) => result[c] = NotReturned)
    /\ [][\A c \in Calls : Done(c) => (Done(c)' /\ result'[c] = result[c])]_vars

C9_Witness ==
    \E c \in Calls :
        /\ Done(c)
        /\ Len(wasm[c]) = MaxChunks
        /\ Cardinality(OpPlaces(wasm[c])) = MaxOps
        /\ Len(decoded[c]) = MaxChunks + MaxOps
        /\ result[c] = Ok

(* C10: Ok is returned only after a complete drain.  Every chunk was       *)
(* yielded and every instruction of every code-section entry was read, in  *)
(* module order, none failed and none was forbidden; instructions are read *)
(* from code-section entries only, a chunk of another kind is passed over  *)
(* whether or not its contents decode.                                     *)
C10_OkOnlyAfterDrain ==
    \A c \in Calls :
        /\ \A e \in Range(decoded[c]) : e[2] > 0 => wasm[c][e[1]].kind = "code"
        /\ (Done(c) /\ result[c].ok) =>
              /\ Range(decoded[c]) = AllEvents(wasm[c])
              /\ ForwardOnly(decoded[c])
              /\ StopEvents(wasm[c]) = {}

C10_Witness ==
    \E c \in Calls :
        /\ Done(c) /\ result[c] = Ok
        /\ wasm[c] = <<OtherPayload(TRUE), CodeEntry(<<"I32Add", "I64TruncF64S">>)>>
        /\ decoded[c] = <<Event(1, 0), Event(2, 0), Event(2, 1), Event(2, 2)>>

=============================================================================
